---- MODULE Spec2Model ----
(***************************************************************************)
(* Active-fin control loop of R_SIM.                                       *)
(*                                                                         *)
(* ActiveFinControlManager (src/backend/f_backend_clean.py) is modelled at *)
(* the granularity of one shared attribute access per step: the manager's  *)
(* fields are read and written without any lock by the loop thread and by  *)
(* the request handlers of the (threaded) web server.                      *)
(*                                                                         *)
(* Scaling: cfd_time_step is in milliseconds (0.01 s = 10), deflections    *)
(* and limits are whole degrees, control_update_rate is in Hz.             *)
(***************************************************************************)
EXTENDS Integers, Sequences, FiniteSets, TLC

\* Thread objects one manager may create in a behaviour.
MaxThreads == 2

\* Commands (FinDeflections objects) the loop threads may construct in a behaviour.
MaxCmds == 2

\* FinDeflections has fin1..fin4.
NFins == 4

\* Request handlers that may be inside the manager at the same time.
Callers == {"c1", "c2"}

Threads == 1..MaxThreads

Min2(a, b) == IF a < b THEN a ELSE b

Max2(a, b) == IF a > b THEN a ELSE b

----------------------------------------------------------------------------
(* Configuration *)

ConfigFields == <<"enabled", "cfd_time_step", "control_update_rate",
                  "fin_deflection_limit", "control_gains", "control_code">>

\* ActiveFinControlManager.__init__: the configuration after construction.
DefaultConfig ==
    [enabled |-> FALSE, cfd_time_step |-> 10, control_update_rate |-> 100,
     fin_deflection_limit |-> 15, control_gains |-> "kp1.0_ki0.1_kd0.05",
     control_code |-> ""]

\* The defaults update_config falls back to, field by field.
UpdateDefaultsOther ==
    [enabled |-> FALSE, cfd_time_step |-> 10, control_update_rate |-> 100,
     fin_deflection_limit |-> 10, control_gains |-> "kp1.0_ki0.1_kd0.05",
     control_code |-> ""]

UpdateDefaults ==
    [enabled |-> FALSE, cfd_time_step |-> 10, control_update_rate |-> 100,
     fin_deflection_limit |-> 15, control_gains |-> "kp1.0_ki0.1_kd0.05",
     control_code |-> ""]

\* dict.get(key, default)
DictGet(d, key, default) == IF key \in DOMAIN d THEN d[key] ELSE default

\* Request bodies posted to /api/active-fin-control/config.
ConfigInputs ==
    << [control_code |-> "steer"],
       [enabled |-> TRUE, cfd_time_step |-> 20, control_update_rate |-> 50,
        fin_deflection_limit |-> 5, control_code |-> "steer"],
       [control_code |-> "hang"] >>

\* Further request bodies: the empty one, and one with a negative deflection
\* limit, a zero update rate and a zero time step.
EmptyBody == [k \in {} |-> k]

OtherInputs ==
    << EmptyBody,
       [cfd_time_step |-> 0, control_update_rate |-> 0,
        fin_deflection_limit |-> -5, control_code |-> "steer"] >>

RequestBodies == ConfigInputs \o OtherInputs

\* The whole configuration a request body stands for.
ResolveConfig(d) ==
    [f \in DOMAIN UpdateDefaults |-> DictGet(d, f, UpdateDefaults[f])]

----------------------------------------------------------------------------
(* The supplied control algorithm (JavaScript text evaluated by js2py) *)

\* What evaluating the source and calling calculateFinDeflections does:
\*   ""       defines nothing: the call of the absent function raises
\*   "steer"  returns four values
\*   "short"  returns three values
\*   "throw"  the function throws
\*   "syntax" the source does not parse
\*   "hang"   the function never returns
\*   "echo"   returns [cfd.attitude[0], cfd.attitude[1], cfd.attitude[2], target.pitch]
\*   "count"  `var n = 0;` beside the function, which does `n = n + 1` and
\*            returns [n, n, n, n]
ParseOk(code) == code # "syntax"

CallResult(code) ==
    CASE code = "steer" -> [kind |-> "value", raw |-> <<20, -20, 5, 0>>]
      [] code = "short" -> [kind |-> "value", raw |-> <<1, 2, 3>>]
      [] code = "hang"  -> [kind |-> "hang", raw |-> <<>>]
      [] code = "count" -> [kind |-> "value", raw |-> <<1, 1, 1, 1>>]
      [] OTHER          -> [kind |-> "raise", raw |-> <<>>]

\* calculateFinDeflections(cfdData, targetTrajectory) in a context made for this
\* one call; input is <<attitude[0], attitude[1], attitude[2], target.pitch>>.
Calculate(code, input) ==
    IF code = "echo" THEN [kind |-> "value", raw |-> input] ELSE CallResult(code)

\* The same call in a context that has been called before: n is the value the
\* context's global holds, left there by the earlier calls.
CallInContext(code, input, n) ==
    IF code = "count"
    THEN [kind |-> "value", raw |-> [i \in 1..NFins |-> n + 1]]
    ELSE Calculate(code, input)

\* What the loop passes: the attitude integrated from zero moments (the case
\* directory holds no solver output) and the target {'pitch': 0, 'yaw': 0}.
LoopInput == <<0, 0, 0, 0>>

----------------------------------------------------------------------------
(* Surfaces: FinGeometryManager, MeshMorpher, OpenFOAMDynamicMeshManager
   (src/backend/mesh_morphing.py). Lengths are in tenths of a metre, a geometry is
   the sequence of its vertices, and deflection angles that rotate a loaded
   geometry are whole quarter turns (degrees, multiples of 90). *)

\* The keys of the deflections dictionary, in its order.
FinIds == <<"fin1", "fin2", "fin3", "fin4">>

\* An empty dict.
NoEntries == [k \in {} |-> k]

\* create_default_fin_configs()
DefaultFinConfigs ==
    [fin1 |-> [stl_path |-> "geometries/fin1.stl", attachment_point |-> <<0, 1, 0>>,
               rotation_axis |-> <<1, 0, 0>>],
     fin2 |-> [stl_path |-> "geometries/fin2.stl", attachment_point |-> <<1, 0, 0>>,
               rotation_axis |-> <<0, 1, 0>>],
     fin3 |-> [stl_path |-> "geometries/fin3.stl", attachment_point |-> <<0, -1, 0>>,
               rotation_axis |-> <<1, 0, 0>>],
     fin4 |-> [stl_path |-> "geometries/fin4.stl", attachment_point |-> <<-1, 0, 0>>,
               rotation_axis |-> <<0, 1, 0>>]]

\* The vertices trimesh.load reads from a fin's STL file.
DiskGeometry == << <<0, 0, 0>>, <<1, 2, 0>>, <<0, 2, 3>> >>

\* R.from_rotvec(axis * radians(90)).as_matrix() applied to one vertex, for the
\* unit axes x and y.
QuarterTurn(axis, v) ==
    IF axis = <<1, 0, 0>> THEN <<v[1], -v[3], v[2]>>
    ELSE IF axis = <<0, 1, 0>> THEN <<v[3], v[2], -v[1]>>
    ELSE <<-v[2], v[1], v[3]>>

RECURSIVE Turn(_, _, _)
Turn(axis, n, v) == IF n = 0 THEN v ELSE Turn(axis, n - 1, QuarterTurn(axis, v))

\* mesh.vertices -= attachment_point; mesh.vertices = mesh.vertices @ matrix.T;
\* mesh.vertices += attachment_point
RotateAbout(vertices, point, axis, angle) ==
    [i \in DOMAIN vertices |->
        LET moved == [j \in 1..3 |-> vertices[i][j] - point[j]]
            turned == Turn(axis, (angle \div 90) % 4, moved)
        IN  [j \in 1..3 |-> turned[j] + point[j]]]

\* FinGeometryManager.update_fin_deflection(fin_id, deflection_angle): the new
\* surfaces and the value returned.
UpdateFinDeflectionInPlace(s, fin, angle) ==
    IF fin \notin DOMAIN s.fin_geometries \/ fin \notin DOMAIN s.fin_attachment_points
       \/ fin \notin DOMAIN s.fin_axes
    THEN [ok |-> FALSE, surf |-> s]
    ELSE LET rotated == RotateAbout(s.fin_geometries[fin], s.fin_attachment_points[fin],
                                    s.fin_axes[fin], angle)
         IN  [ok |-> TRUE,
              surf |-> [s EXCEPT !.fin_geometries =
                                    [f \in DOMAIN s.fin_geometries |->
                                        IF f = fin THEN rotated ELSE s.fin_geometries[f]],
                                 !.stl = [f \in DOMAIN s.stl \cup {fin} |->
                                            IF f = fin THEN rotated ELSE s.stl[f]]]]

UpdateFinDeflection(s, fin, angle) ==
    IF fin \notin DOMAIN s.fin_geometries \/ fin \notin DOMAIN s.fin_attachment_points
       \/ fin \notin DOMAIN s.fin_axes
    THEN [ok |-> FALSE, surf |-> s]
    ELSE LET rotated == RotateAbout(s.fin_geometries[fin], s.fin_attachment_points[fin],
                                    s.fin_axes[fin], angle)
         IN  [ok |-> TRUE,
              surf |-> [s EXCEPT !.stl = [f \in DOMAIN s.stl \cup {fin} |->
                                            IF f = fin THEN rotated ELSE s.stl[f]]]]

\* MeshMorpher.update_fin_deflections(deflections): fin by fin in the order of the
\* dictionary, returning False at the first fin whose update returns False.
RECURSIVE UpdateFinDeflections(_, _, _)
UpdateFinDeflections(s, fins, k) ==
    IF k > Len(FinIds)
    THEN [ok |-> TRUE, surf |-> s]
    ELSE LET r == UpdateFinDeflection(s, FinIds[k], fins[k])
         IN  IF r.ok THEN UpdateFinDeflections(r.surf, fins, k + 1)
                     ELSE [ok |-> FALSE, surf |-> r.surf]

\* OpenFOAMDynamicMeshManager(case_dir).setup_dynamic_mesh(fin_configs), through
\* MeshMorpher.setup_fin_geometries: a geometry is loaded when the configured
\* stl_path exists, the point and the axis are bound when configured.
SetupDynamicMesh(fin_configs, disk) ==
    LET has(key) == {f \in DOMAIN fin_configs : key \in DOMAIN fin_configs[f]}
    IN  [created |-> TRUE, disk |-> disk,
         fin_geometries |-> [f \in has("stl_path") \cap disk |-> DiskGeometry],
         fin_attachment_points |->
             [f \in has("attachment_point") |-> fin_configs[f].attachment_point],
         fin_axes |-> [f \in has("rotation_axis") |-> fin_configs[f].rotation_axis],
         stl |-> NoEntries, cmd |-> <<>>, ok |-> TRUE, prev |-> NoEntries]

\* OpenFOAMDynamicMeshManager.update_fin_positions(deflections)
UpdateFinPositions(s, fins) ==
    LET r == UpdateFinDeflections(s, fins, 1)
    IN  [r.surf EXCEPT !.cmd = fins, !.ok = r.ok, !.prev = s.stl]

-----------------------------------------------------------------------------
(* OpenFOAMDataExtractor: the postProcessing tables and the state estimator.
   Quantities are whole numbers of a fixed unit, so that every division of the
   source is exact: forces and moments in 0.01 N and 0.01 N m, pressures in
   0.5 Pa, velocities in 0.5 m/s, time steps in ms, angular velocities in
   1e-5 rad/s, attitudes in 1e-8, positions in 0.5e-3 m. *)

Zero3 == <<0, 0, 0>>

\* A whitespace-separated token of a table row: ok says that float(token) returns,
\* v is the value it returns.
Num(v) == [ok |-> TRUE, v |-> v]
NotANumber == [ok |-> FALSE, v |-> 0]

\* What re.search finds for one `min(..) = ` or `max(..) = ` pattern: found says
\* the pattern occurs, ok that float(match.group(1)) returns, v its value.
Match(v) == [found |-> TRUE, ok |-> TRUE, v |-> v]
NoMatch == [found |-> FALSE, ok |-> TRUE, v |-> 0]
BadMatch == [found |-> TRUE, ok |-> FALSE, v |-> 0]

\* {"forces": [0, 0, 0], "moments": [0, 0, 0]}
ZeroForces == [forces |-> Zero3, moments |-> Zero3]

\* extract_forces_and_moments: f.exists is forces_file.exists(), f.lines the
\* lines of the file, each the list of its tokens (data[k] of the source is
\* data[k + 1] here). A token that is no number, or a row of exactly six tokens
\* (data[6] is read), raises inside the try and the except returns the zeros.
ExtractForcesAndMoments(f) ==
    IF ~f.exists THEN ZeroForces
    ELSE IF Len(f.lines) < 2 THEN ZeroForces
    ELSE LET data == f.lines[Len(f.lines)]
         IN  IF Len(data) >= 6
             THEN IF /\ \A k \in 2..6 : data[k].ok
                     /\ Len(data) >= 7
                     /\ data[7].ok
                  THEN [forces |-> <<data[2].v, data[3].v, data[4].v>>,
                        moments |-> <<data[5].v, data[6].v, data[7].v>>]
                  ELSE ZeroForces
             ELSE ZeroForces

\* 101325 Pa
StandardPressure == 2 * 101325

DefaultPressure ==
    [min_pressure |-> StandardPressure, max_pressure |-> StandardPressure,
     avg_pressure |-> StandardPressure]

\* The variant that reports 0 for a missing pressure table.
ExtractPressureFieldZero(f) ==
    IF ~f.exists
    THEN [min_pressure |-> 0, max_pressure |-> 0, avg_pressure |-> 0]
    ELSE IF (f.min.found /\ ~f.min.ok) \/ (f.max.found /\ ~f.max.ok)
    THEN DefaultPressure
    ELSE LET min_pressure == IF f.min.found THEN f.min.v ELSE StandardPressure
             max_pressure == IF f.max.found THEN f.max.v ELSE StandardPressure
         IN  [min_pressure |-> min_pressure, max_pressure |-> max_pressure,
              avg_pressure |-> (min_pressure + max_pressure) \div 2]

\* extract_pressure_field: f.min and f.max are the two re.search results on the
\* content of the file; a matched text that float() rejects raises and the
\* except returns the defaults.
ExtractPressureField(f) ==
    IF ~f.exists THEN DefaultPressure
    ELSE IF (f.min.found /\ ~f.min.ok) \/ (f.max.found /\ ~f.max.ok)
    THEN DefaultPressure
    ELSE LET min_pressure == IF f.min.found THEN f.min.v ELSE StandardPressure
             max_pressure == IF f.max.found THEN f.max.v ELSE StandardPressure
         IN  [min_pressure |-> min_pressure, max_pressure |-> max_pressure,
              avg_pressure |-> (min_pressure + max_pressure) \div 2]

DefaultVelocity ==
    [min_velocity |-> Zero3, max_velocity |-> Zero3, avg_velocity |-> Zero3]

\* extract_velocity_field: f.min[i] and f.max[i] are the re.search results for
\* component i (x, y, z); min_vel and max_vel start as [0, 0, 0].
ExtractVelocityField(f) ==
    IF ~f.exists THEN DefaultVelocity
    ELSE IF \E i \in 1..3 : \/ f.min[i].found /\ ~f.min[i].ok
                            \/ f.max[i].found /\ ~f.max[i].ok
    THEN DefaultVelocity
    ELSE LET min_vel == [i \in 1..3 |-> IF f.min[i].found THEN f.min[i].v ELSE 0]
             max_vel == [i \in 1..3 |-> IF f.max[i].found THEN f.max[i].v ELSE 0]
         IN  [min_velocity |-> min_vel, max_velocity |-> max_vel,
              avg_velocity |-> [i \in 1..3 |-> (min_vel[i] + max_vel[i]) \div 2]]

\* self.data_cache.get(key, default): cache.keys is the set of keys stored.
CacheGet(cache, key, default) == IF key \in cache.keys THEN cache[key] ELSE default

\* Ix, Iy, Iz = 0.1, 0.1, 0.05: dividing by them multiplies by 10, 10 and 20.
InverseInertia == <<10, 10, 20>>

\* The variant that advances the attitude with the previous angular velocity.
CalculateAttitudeFromMomentsLagged(cache, moments, dt) ==
    LET prev_attitude == CacheGet(cache, "attitude", Zero3)
        alpha == [i \in 1..3 |-> moments[i] * InverseInertia[i]]
        prev_omega == CacheGet(cache, "angular_velocity", Zero3)
        omega == [i \in 1..3 |-> prev_omega[i] + alpha[i] * dt]
        attitude == [i \in 1..3 |-> prev_attitude[i] + prev_omega[i] * dt]
    IN  [cache EXCEPT !.keys = @ \cup {"attitude", "angular_velocity"},
                      !.attitude = attitude, !.angular_velocity = omega]

\* calculate_attitude_from_moments(moments, dt): the data_cache it leaves; the
\* value it returns is the attitude stored.
CalculateAttitudeFromMoments(cache, moments, dt) ==
    LET prev_attitude == CacheGet(cache, "attitude", Zero3)
        alpha == [i \in 1..3 |-> moments[i] * InverseInertia[i]]
        prev_omega == CacheGet(cache, "angular_velocity", Zero3)
        omega == [i \in 1..3 |-> prev_omega[i] + alpha[i] * dt]
        attitude == [i \in 1..3 |-> prev_attitude[i] + omega[i] * dt]
    IN  [cache EXCEPT !.keys = @ \cup {"attitude", "angular_velocity"},
                      !.attitude = attitude, !.angular_velocity = omega]

\* calculate_position_from_velocity(velocity, dt): the data_cache it leaves; the
\* value it returns is the position stored.
CalculatePositionFromVelocity(cache, velocity, dt) ==
    LET prev_position == CacheGet(cache, "position", Zero3)
    IN  [cache EXCEPT !.keys = @ \cup {"position"},
                      !.position = [i \in 1..3 |-> prev_position[i] + velocity[i] * dt]]

\* {}: the dict without keys; filled is the truth value of the dict.
NoData ==
    [filled |-> FALSE, timestamp |-> 0, attitude |-> Zero3, velocity |-> Zero3,
     position |-> Zero3, angular_velocity |-> Zero3, forces |-> Zero3,
     moments |-> Zero3, pressure |-> 0, temperature |-> 0, dt |-> 0]

\* OpenFOAMDataExtractor.__init__: self.data_cache = {}
EmptyCache ==
    [keys |-> {}, attitude |-> Zero3, angular_velocity |-> Zero3,
     position |-> Zero3, last_cfd_data |-> NoData]

\* OpenFOAMDataExtractor.__init__ (created is `cfd_data_manager is not None`).
NewExtractor == [created |-> FALSE, last_extraction_time |-> 0, data_cache |-> EmptyCache]

\* `current_time - self.last_extraction_time < 0.01`, times in ms.
RateLimitMs == 10

RateLimitedNever(e, current_time) == FALSE

RateLimited(e, current_time) == current_time - e.last_extraction_time < RateLimitMs

\* The body of extract_all_cfd_data after the rate-limit test, run to its end:
\* the three tables are read, the attitude and the position are integrated, the
\* state is compiled, cached and returned. The result is the extractor left
\* behind; the state returned is its data_cache.last_cfd_data.
ExtractBody(e, tables, current_time, dt) ==
    LET forces_moments == ExtractForcesAndMoments(tables.forces)
        pressure_data == ExtractPressureField(tables.pressure)
        velocity_data == ExtractVelocityField(tables.velocity)
        velocity == velocity_data.avg_velocity
        c1 == CalculateAttitudeFromMoments(e.data_cache, forces_moments.moments, dt)
        c2 == CalculatePositionFromVelocity(c1, velocity, dt)
        cfd_data ==
            [filled |-> TRUE, timestamp |-> current_time,
             attitude |-> c2.attitude, velocity |-> velocity,
             position |-> c2.position,
             angular_velocity |-> CacheGet(c2, "angular_velocity", Zero3),
             forces |-> forces_moments.forces, moments |-> forces_moments.moments,
             pressure |-> pressure_data.avg_pressure, temperature |-> 288, dt |-> dt]
    IN  [e EXCEPT !.data_cache = [c2 EXCEPT !.keys = @ \cup {"last_cfd_data"},
                                            !.last_cfd_data = cfd_data],
                  !.last_extraction_time = current_time]

\* The variant that forgets the cache.
CachedDataNone(e) == NoData

\* The except branch of extract_all_cfd_data, and its rate-limited return:
\* self.data_cache.get('last_cfd_data', {})
CachedData(e) == CacheGet(e.data_cache, "last_cfd_data", NoData)

\* _get_latest_cfd_data: the CFDData built from the dict when it is not empty,
\* else the fallback CFDData(time.time(), zeros, 101325, 288).
ToCFDData(d, time) ==
    IF d.filled
    THEN [timestamp |-> d.timestamp, attitude |-> d.attitude, velocity |-> d.velocity,
          position |-> d.position, angular_velocity |-> d.angular_velocity,
          pressure |-> d.pressure, temperature |-> d.temperature]
    ELSE [timestamp |-> time, attitude |-> Zero3, velocity |-> Zero3,
          position |-> Zero3, angular_velocity |-> Zero3,
          pressure |-> StandardPressure, temperature |-> 288]

----------------------------------------------------------------------------
VARIABLES
    config,          \* self.config (one object, mutated in place)
    running,         \* self.running
    control_thread,  \* self.control_thread: 0 is None, else a thread object
    current,         \* self.current_fin_deflections
    mesh,            \* the deflections last handed to the dynamic mesh manager
    thr,             \* the thread objects created by start_control_loop
    call,            \* the request handlers
    clock,           \* time.time(), advanced by each FinDeflections constructed
    quiet,           \* history: a stop has returned and no start was issued since
    recorded,        \* history: timestamps of the commands recorded as current
    actuated,        \* history: timestamps of the commands handed to the mesh
    orch,            \* SimulationOrchestrator: its flags and control_thread
    othr,            \* the thread objects created by start_simulation
    ocall,           \* the callers of start_simulation / stop_simulation
    omesh,           \* the deflections the orchestrator last handed to the mesh
    est,             \* cfd_data_manager: created or not, and its integration state
    surf,            \* FinGeometryManager: base geometries, bindings, written artifacts
    diag,            \* the request handler of /api/active-fin-control/test
    stat,            \* the request handler of /api/active-fin-control/status
    applied,         \* history: the request body of the last update_config that returned
    xt,              \* the OpenFOAMDataExtractor of cfd_data_manager
    files,           \* the postProcessing tables of the case directory
    now,             \* time.time(), in ms
    xc,              \* the calls of _get_latest_cfd_data in progress
    ret,             \* history: the last state returned, and how many were
    hist             \* history: the moments and time step of each integration

orchVars == <<orch, othr, ocall, omesh>>

extVars == <<xt, files, now, xc, ret, hist>>

auxVars == <<est, surf, diag, stat, applied, extVars>>

vars == <<config, running, control_thread, current, mesh, thr, call, clock,
          quiet, recorded, actuated, orchVars, auxVars>>

mgrVars == <<config, running, control_thread, current, mesh, thr, call, clock,
             quiet, recorded, actuated>>

\* FinDeflections(timestamp, fin1..fin4); glim is history: the limit in the
\* configuration when the object was constructed.
FinDeflections(ts, fins, lim) == [ts |-> ts, fins |-> fins, glim |-> lim]

NoObs == [cfd_time_step |-> {}, control_code |-> {},
          fin_deflection_limit |-> {}, control_update_rate |-> {}]

IdleThread ==
    [st |-> "none", pc |-> "top", raw |-> <<>>, lim |-> <<>>, lo |-> 0,
     cmd |-> FinDeflections(0, <<0, 0, 0, 0>>, 0), obs |-> NoObs, fresh |-> FALSE]

IdleCall == [pc |-> "idle", arg |-> 0, k |-> 0, tgt |-> 0]

\* SimulationOrchestrator.__init__
NewOrchestrator ==
    [simulation_running |-> FALSE, control_loop_running |-> FALSE, control_thread |-> 0]

IdleOrchThread == [st |-> "none", pc |-> "init", alg |-> "", n |-> 0, out |-> <<>>]

IdleOrchCall == [pc |-> "idle", alg |-> "", tgt |-> 0]

\* self.cfd_data_manager = None; once created, the OpenFOAMDataExtractor holds the
\* integrated attitude, angular velocity and position in its data_cache: steps is
\* the number of integration steps that produced them.
NewEstimator == [created |-> FALSE, steps |-> 0]

\* self.dynamic_mesh_manager = None: no FinGeometryManager yet. disk is the set of
\* fins whose stl_path names an existing file (none is shipped with the code);
\* cmd, ok and prev are history: the deflections of the last update_fin_positions
\* call, what it returned, and the artifacts as they were before it.
NoSurfaces ==
    [created |-> FALSE, disk |-> {}, fin_geometries |-> NoEntries,
     fin_attachment_points |-> NoEntries, fin_axes |-> NoEntries, stl |-> NoEntries,
     cmd |-> <<>>, ok |-> TRUE, prev |-> NoEntries]

IdleDiag ==
    [pc |-> "idle", input |-> <<>>, code |-> "", raw |-> <<>>, lim |-> <<>>,
     lo |-> 0, out |-> <<>>]

\* from is history: the timestamps of the FinDeflections objects the reads met.
IdleStat ==
    [pc |-> "idle", running |-> FALSE, enabled |-> FALSE, fins |-> <<>>, ts |-> 0,
     from |-> <<>>]

\* The threads that call _get_latest_cfd_data: the control loop, and the request
\* handler of /api/active-fin-control/cfd-data.
XCallers == {"loop", "request"}

IdleExtract == [pc |-> "idle", current_time |-> 0, dt |-> 0]

\* time.time() when the manager is constructed, in ms.
Epoch == 1000

\* A case directory without postProcessing tables.
MissingForces == [exists |-> FALSE, lines |-> <<>>]
MissingPressure == [exists |-> FALSE, min |-> NoMatch, max |-> NoMatch]
MissingVelocity ==
    [exists |-> FALSE, min |-> <<NoMatch, NoMatch, NoMatch>>,
     max |-> <<NoMatch, NoMatch, NoMatch>>]

NoTables ==
    [forces |-> MissingForces, pressure |-> MissingPressure, velocity |-> MissingVelocity]

\* Every field but the configuration, the surfaces and the tables, as the
\* constructors leave it.
Constructed ==
    /\ running = FALSE
    /\ control_thread = 0
    /\ current = FinDeflections(0, <<0, 0, 0, 0>>, DefaultConfig.fin_deflection_limit)
    /\ mesh = FinDeflections(0, <<0, 0, 0, 0>>, DefaultConfig.fin_deflection_limit)
    /\ thr = [t \in Threads |-> IdleThread]
    /\ call = [c \in Callers |-> IdleCall]
    /\ clock = 0
    /\ quiet = FALSE
    /\ recorded = {}
    /\ actuated = {}
    /\ orch = NewOrchestrator
    /\ othr = [t \in Threads |-> IdleOrchThread]
    /\ ocall = [c \in Callers |-> IdleOrchCall]
    /\ omesh = <<0, 0, 0, 0>>
    /\ est = NewEstimator
    /\ diag = IdleDiag
    /\ stat = IdleStat
    /\ applied = 0
    /\ xt = NewExtractor
    /\ now = Epoch
    /\ xc = [c \in XCallers |-> IdleExtract]
    /\ ret = [n |-> 0, who |-> "loop", data |-> NoData, cfd |-> ToCFDData(NoData, 0),
              via |-> "none"]
    /\ hist = <<>>

Init ==
    /\ config = DefaultConfig
    /\ surf = NoSurfaces
    /\ files = NoTables
    /\ Constructed

----------------------------------------------------------------------------
(* The loop thread: ActiveFinControlManager._control_loop *)

Alive(t) == thr[t].st = "alive"

\* A thread that has passed `while self.running` and is executing a cycle.
InCycle(t) == Alive(t) /\ thr[t].pc # "top"

\* A thread inside a cycle whose FinDeflections is not constructed yet.
Unbuilt(t) == Alive(t) /\ thr[t].pc \in {"extract", "eval", "clamp_lo", "clamp_hi"}

UpdateInProgress == \E c \in Callers : call[c].pc = "u_write"

\* self.config.<field>, read at the moment of use.
ReadConfigHardCoded(f) == DefaultConfig[f]

ReadConfig(f) == config[f]

Observe(t, f, v) == [thr[t].obs EXCEPT ![f] = @ \cup {v}]

\* `while self.running:` : enter the next cycle, or leave the loop.
LoopTopGated(t) ==
    /\ Alive(t) /\ thr[t].pc = "top"
    /\ IF running /\ config.enabled
       THEN /\ clock + Cardinality({u \in Threads : Unbuilt(u)}) < MaxCmds
            /\ thr' = [thr EXCEPT ![t].pc = "extract", ![t].obs = NoObs,
                                  ![t].fresh = ~UpdateInProgress]
       ELSE thr' = [thr EXCEPT ![t] = [IdleThread EXCEPT !.st = "dead"]]
    /\ UNCHANGED <<config, running, control_thread, current, mesh, call, clock,
                   quiet, recorded, actuated, orchVars, auxVars>>

LoopTop(t) ==
    /\ Alive(t) /\ thr[t].pc = "top"
    /\ IF running
       THEN /\ clock + Cardinality({u \in Threads : Unbuilt(u)}) < MaxCmds
            /\ thr' = [thr EXCEPT ![t].pc = "extract", ![t].obs = NoObs,
                                  ![t].fresh = ~UpdateInProgress]
       ELSE thr' = [thr EXCEPT ![t] = [IdleThread EXCEPT !.st = "dead"]]
    /\ UNCHANGED <<config, running, control_thread, current, mesh, call, clock,
                   quiet, recorded, actuated, orchVars, auxVars>>

\* OpenFOAMDataExtractor.extract_all_cfd_data(dt), reached through
\* CFDDataManager.get_latest_cfd_data: when less than 10 ms have passed since the
\* last extraction the cached data is returned, otherwise the attitude, angular
\* velocity and position are integrated one step further. The first call always
\* integrates (last_extraction_time starts at 0).
ExtractAll(e, elapsed) ==
    [created |-> TRUE,
     steps |-> IF elapsed \/ e.steps = 0 THEN e.steps + 1 ELSE e.steps]

\* cfd_data = self._get_latest_cfd_data(): reads config.cfd_time_step and always
\* returns a CFDData (the extracted one or the fallback), so `if cfd_data:` holds.
Extract(t) ==
    /\ Alive(t) /\ thr[t].pc = "extract"
    /\ thr' = [thr EXCEPT ![t].pc = "eval",
                          ![t].obs = Observe(t, "cfd_time_step", ReadConfig("cfd_time_step"))]
    /\ \E elapsed \in BOOLEAN : est' = ExtractAll(est, elapsed)
    /\ UNCHANGED <<config, running, control_thread, current, mesh, call, clock,
                   quiet, recorded, actuated, orchVars, surf, diag, stat, applied, extVars>>

\* The except branch of execute_control_algorithm: FinDeflections(time.time(), 0, 0, 0, 0)
ZeroCommand == FinDeflections(clock + 1, <<0, 0, 0, 0>>, config.fin_deflection_limit)

\* FinDeflections(time.time(), limited[0], limited[1], limited[2], limited[3]);
\* a list shorter than four raises IndexError, which the except branch catches.
MakeCommandPadded(limited) ==
    FinDeflections(clock + 1,
                   [i \in 1..NFins |-> IF i <= Len(limited) THEN limited[i] ELSE 0],
                   config.fin_deflection_limit)

MakeCommand(limited) ==
    IF Len(limited) >= NFins
    THEN FinDeflections(clock + 1, SubSeq(limited, 1, NFins), config.fin_deflection_limit)
    ELSE ZeroCommand

\* js_context.eval(self.config.control_code); js_context.calculateFinDeflections(...)
Eval(t) ==
    /\ Alive(t) /\ thr[t].pc = "eval"
    /\ LET code == ReadConfig("control_code")
           r == Calculate(code, LoopInput)
           obs == Observe(t, "control_code", code)
       IN  IF ~ParseOk(code) \/ r.kind = "raise"
           THEN /\ thr' = [thr EXCEPT ![t].pc = "record", ![t].cmd = ZeroCommand,
                                      ![t].obs = obs]
                /\ clock' = clock + 1
           ELSE IF r.kind = "hang"
           THEN /\ thr' = [thr EXCEPT ![t].pc = "hung", ![t].obs = obs]
                /\ clock' = clock
           ELSE /\ thr' = [thr EXCEPT ![t].pc = "clamp_lo", ![t].raw = r.raw,
                                      ![t].lim = <<>>, ![t].obs = obs]
                /\ clock' = clock
    /\ UNCHANGED <<config, running, control_thread, current, mesh, call,
                   quiet, recorded, actuated, orchVars, auxVars>>

\* The first argument of max(...): -self.config.fin_deflection_limit
ClampLo(t) ==
    /\ Alive(t) /\ thr[t].pc = "clamp_lo"
    /\ LET l == ReadConfig("fin_deflection_limit")
       IN  thr' = [thr EXCEPT ![t].pc = "clamp_hi", ![t].lo = -l,
                              ![t].obs = Observe(t, "fin_deflection_limit", l)]
    /\ UNCHANGED <<config, running, control_thread, current, mesh, call, clock,
                   quiet, recorded, actuated, orchVars, auxVars>>

\* max(lo, min(self.config.fin_deflection_limit, deflection))
ClampUpperOnly(lo, hi, deflection) == Min2(hi, deflection)

Clamp(lo, hi, deflection) == Max2(lo, Min2(hi, deflection))

\* The second argument of max(...), the append, and after the last raw value the
\* construction of the FinDeflections that execute_control_algorithm returns.
ClampHi(t) ==
    /\ Alive(t) /\ thr[t].pc = "clamp_hi"
    /\ LET l == ReadConfig("fin_deflection_limit")
           limited == Append(thr[t].lim, Clamp(thr[t].lo, l, thr[t].raw[Len(thr[t].lim) + 1]))
           obs == Observe(t, "fin_deflection_limit", l)
       IN  IF Len(limited) < Len(thr[t].raw)
           THEN /\ thr' = [thr EXCEPT ![t].pc = "clamp_lo", ![t].lim = limited,
                                      ![t].lo = 0, ![t].obs = obs]
                /\ clock' = clock
           ELSE /\ thr' = [thr EXCEPT ![t].pc = "record", ![t].lim = <<>>,
                                      ![t].raw = <<>>, ![t].lo = 0,
                                      ![t].cmd = MakeCommand(limited), ![t].obs = obs]
                /\ clock' = clock + 1
    /\ UNCHANGED <<config, running, control_thread, current, mesh, call,
                   quiet, recorded, actuated, orchVars, auxVars>>

\* self.current_fin_deflections = new_deflections
RecordSkipped(t) ==
    /\ Alive(t) /\ thr[t].pc = "record"
    /\ thr' = [thr EXCEPT ![t].pc = "actuate"]
    /\ UNCHANGED <<config, running, control_thread, current, mesh, call, clock,
                   quiet, recorded, actuated, orchVars, auxVars>>

Record(t) ==
    /\ Alive(t) /\ thr[t].pc = "record"
    /\ current' = thr[t].cmd
    /\ recorded' = recorded \cup {thr[t].cmd.ts}
    /\ thr' = [thr EXCEPT ![t].pc = "actuate"]
    /\ UNCHANGED <<config, running, control_thread, mesh, call, clock,
                   quiet, actuated, orchVars, auxVars>>

\* self._update_mesh_fins(new_deflections): creates and sets up the dynamic mesh
\* manager on first use, then hands it the four deflections; whatever it raises is
\* caught inside.
Actuate(t) ==
    /\ Alive(t) /\ thr[t].pc = "actuate"
    /\ mesh' = thr[t].cmd
    /\ actuated' = actuated \cup {thr[t].cmd.ts}
    /\ surf' = UpdateFinPositions(IF surf.created THEN surf
                                  ELSE SetupDynamicMesh(DefaultFinConfigs, surf.disk),
                                  thr[t].cmd.fins)
    /\ thr' = [thr EXCEPT ![t].pc = "sleep"]
    /\ UNCHANGED <<config, running, control_thread, current, call, clock,
                   quiet, recorded, orchVars, est, diag, stat, applied, extVars>>

\* time.sleep(1.0 / self.config.control_update_rate): a rate of 0 raises
\* ZeroDivisionError and a negative one ValueError; `except Exception` catches
\* both, sleeps 0.1 s, and the while loop goes on.
Sleep(t) ==
    /\ Alive(t) /\ thr[t].pc = "sleep"
    /\ LET rate == ReadConfig("control_update_rate")
       IN  thr' = [thr EXCEPT ![t].pc = "top",
                              ![t].cmd = IdleThread.cmd,
                              ![t].obs = Observe(t, "control_update_rate", rate)]
    /\ UNCHANGED <<config, running, control_thread, current, mesh, call, clock,
                   quiet, recorded, actuated, orchVars, auxVars>>

----------------------------------------------------------------------------
(* start_control_loop and stop_control_loop, as called by the request handlers *)

Idle(c) == call[c].pc = "idle"

\* The call returns to the request handler, which answers success.
Return(c) == [call EXCEPT ![c] = IdleCall]

\* The call raises; the request handler's `except Exception` will answer 500.
Raise(c) == [call EXCEPT ![c] = [IdleCall EXCEPT !.pc = "raised"]]

StartInProgress == \E c \in Callers : call[c].pc \in {"s_ret", "s_set", "s_create", "s_start"}

\* Thread objects not yet constructed, and the start calls that will construct one.
Unused == {t \in Threads : thr[t].st = "none"}

Creating == {c \in Callers : call[c].pc \in {"s_set", "s_create"}}

\* `if self.running: return` : the start request reads the flag once.
StartCheckUnguarded(c) ==
    /\ Idle(c)
    /\ Cardinality(Unused) > Cardinality(Creating)
    /\ call' = [call EXCEPT ![c] = [IdleCall EXCEPT !.pc = "s_set"]]
    /\ quiet' = FALSE
    /\ UNCHANGED <<config, running, control_thread, current, mesh, thr, clock,
                   recorded, actuated, orchVars, auxVars>>

StartCheck(c) ==
    /\ Idle(c)
    /\ IF running
       THEN call' = [call EXCEPT ![c] = [IdleCall EXCEPT !.pc = "s_ret"]]
       ELSE /\ Cardinality(Unused) > Cardinality(Creating)
            /\ call' = [call EXCEPT ![c] = [IdleCall EXCEPT !.pc = "s_set"]]
    /\ quiet' = FALSE
    /\ UNCHANGED <<config, running, control_thread, current, mesh, thr, clock,
                   recorded, actuated, orchVars, auxVars>>

\* the `return` of the guard: back in the request handler, nothing done
StartReturn(c) ==
    /\ call[c].pc = "s_ret"
    /\ call' = Return(c)
    /\ UNCHANGED <<config, running, control_thread, current, mesh, thr, clock,
                   quiet, recorded, actuated, orchVars, auxVars>>

\* self.running = True
StartSet(c) ==
    /\ call[c].pc = "s_set"
    /\ running' = TRUE
    /\ call' = [call EXCEPT ![c].pc = "s_create"]
    /\ UNCHANGED <<config, control_thread, current, mesh, thr, clock,
                   quiet, recorded, actuated, orchVars, auxVars>>

\* self.control_thread = threading.Thread(target=self._control_loop)
StartCreate(c) ==
    /\ call[c].pc = "s_create"
    /\ Unused # {}
    /\ LET n == CHOOSE t \in Unused : \A u \in Unused : t <= u
       IN  /\ thr' = [thr EXCEPT ![n].st = "created"]
           /\ control_thread' = n
    /\ call' = [call EXCEPT ![c].pc = "s_start"]
    /\ UNCHANGED <<config, running, current, mesh, clock, quiet, recorded, actuated, orchVars, auxVars>>

\* self.control_thread.start(): the attribute is read again, so the thread started
\* is the one the field holds now; Thread.start() on a thread that was already
\* started raises RuntimeError.
StartRun(c) ==
    /\ call[c].pc = "s_start"
    /\ IF thr[control_thread].st = "created"
       THEN /\ thr' = [thr EXCEPT ![control_thread].st = "alive"]
            /\ call' = Return(c)
       ELSE /\ thr' = thr
            /\ call' = Raise(c)
    /\ UNCHANGED <<config, running, control_thread, current, mesh, clock,
                   quiet, recorded, actuated, orchVars, auxVars>>

\* self.running = False
StopSet(c) ==
    /\ Idle(c)
    /\ running' = FALSE
    /\ call' = [call EXCEPT ![c] = [IdleCall EXCEPT !.pc = "st_read"]]
    /\ UNCHANGED <<config, control_thread, current, mesh, thr, clock,
                   quiet, recorded, actuated, orchVars, auxVars>>

\* `if self.control_thread: self.control_thread.join()` : nothing to join when the
\* field is None; Thread.join() raises RuntimeError on a thread not yet started,
\* returns at once on a thread that has ended, and otherwise blocks.
StopReadUnguarded(c) ==
    /\ call[c].pc = "st_read"
    /\ IF control_thread = 0 \/ thr[control_thread].st = "created"
       THEN /\ call' = Raise(c)
            /\ quiet' = quiet
       ELSE IF thr[control_thread].st = "dead"
       THEN /\ call' = Return(c)
            /\ quiet' = ~StartInProgress
       ELSE /\ call' = [call EXCEPT ![c].pc = "st_join", ![c].tgt = control_thread]
            /\ quiet' = quiet
    /\ UNCHANGED <<config, running, control_thread, current, mesh, thr, clock,
                   recorded, actuated, orchVars, auxVars>>

StopRead(c) ==
    /\ call[c].pc = "st_read"
    /\ IF control_thread = 0 \/ thr[control_thread].st = "dead"
       THEN /\ call' = Return(c)
            /\ quiet' = ~StartInProgress
       ELSE IF thr[control_thread].st = "created"
       THEN /\ call' = Raise(c)
            /\ quiet' = quiet
       ELSE /\ call' = [call EXCEPT ![c].pc = "st_join", ![c].tgt = control_thread]
            /\ quiet' = quiet
    /\ UNCHANGED <<config, running, control_thread, current, mesh, thr, clock,
                   recorded, actuated, orchVars, auxVars>>

\* join() without a timeout returns when the joined thread has ended.
StopJoin(c) ==
    /\ call[c].pc = "st_join"
    /\ thr[call[c].tgt].st = "dead"
    /\ call' = Return(c)
    /\ quiet' = ~StartInProgress
    /\ UNCHANGED <<config, running, control_thread, current, mesh, thr, clock,
                   recorded, actuated, orchVars, auxVars>>

\* start_active_fin_control / stop_active_fin_control: `except Exception as e`
\* turns what the manager raised into a 500 response.
Respond500(c) ==
    /\ call[c].pc = "raised"
    /\ call' = Return(c)
    /\ UNCHANGED <<config, running, control_thread, current, mesh, thr, clock,
                   quiet, recorded, actuated, orchVars, auxVars>>

----------------------------------------------------------------------------
(* update_config: six attribute assignments on the one config object *)

UpdateField(c) == ConfigFields[call[c].k]

\* self.config.enabled = config_data.get('enabled', False)
UpdateBegin(c, i) ==
    /\ Idle(c)
    /\ config' = [config EXCEPT !.enabled =
                     DictGet(RequestBodies[i], "enabled", UpdateDefaults.enabled)]
    /\ call' = [call EXCEPT ![c] = [IdleCall EXCEPT !.pc = "u_write", !.arg = i, !.k = 2]]
    /\ thr' = [t \in Threads |-> [thr[t] EXCEPT !.fresh = FALSE]]
    /\ UNCHANGED <<running, control_thread, current, mesh, clock,
                   quiet, recorded, actuated, orchVars, auxVars>>

\* the next of cfd_time_step, control_update_rate, fin_deflection_limit,
\* control_gains, control_code
UpdateWrite(c) ==
    /\ call[c].pc = "u_write"
    /\ LET f == UpdateField(c)
       IN  config' = [config EXCEPT ![f] =
                         DictGet(RequestBodies[call[c].arg], f, UpdateDefaults[f])]
    /\ call' = IF call[c].k = Len(ConfigFields)
               THEN Return(c)
               ELSE [call EXCEPT ![c].k = @ + 1]
    /\ thr' = [t \in Threads |-> [thr[t] EXCEPT !.fresh = FALSE]]
    /\ applied' = IF call[c].k = Len(ConfigFields) THEN call[c].arg ELSE applied
    /\ UNCHANGED <<running, control_thread, current, mesh, clock,
                   quiet, recorded, actuated, orchVars, est, surf, diag, stat, extVars>>

----------------------------------------------------------------------------
(* test_control_algorithm: one execute_control_algorithm call made by the request
   handler of /api/active-fin-control/test, in the handler's own thread *)

\* data = request.get_json(); sample_cfd_data = CFDData(...); target_trajectory
DiagBegin(input) ==
    /\ diag.pc = "idle"
    /\ diag' = [IdleDiag EXCEPT !.pc = "t_eval", !.input = input]
    /\ UNCHANGED <<config, running, control_thread, current, mesh, thr, call, clock,
                   quiet, recorded, actuated, orchVars, est, surf, stat, applied, extVars>>

\* js_context.eval(self.config.control_code); js_context.calculateFinDeflections(...)
DiagEval ==
    /\ diag.pc = "t_eval"
    /\ LET code == ReadConfig("control_code")
           r == Calculate(code, diag.input)
       IN  diag' = IF ~ParseOk(code) \/ r.kind = "raise"
                   THEN [diag EXCEPT !.pc = "t_respond", !.code = code,
                                     !.out = ZeroCommand.fins]
                   ELSE IF r.kind = "hang"
                   THEN [diag EXCEPT !.pc = "t_hung", !.code = code]
                   ELSE [diag EXCEPT !.pc = "t_clamp_lo", !.code = code, !.raw = r.raw]
    /\ UNCHANGED <<config, running, control_thread, current, mesh, thr, call, clock,
                   quiet, recorded, actuated, orchVars, est, surf, stat, applied, extVars>>

\* -self.config.fin_deflection_limit
DiagClampLo ==
    /\ diag.pc = "t_clamp_lo"
    /\ diag' = [diag EXCEPT !.pc = "t_clamp_hi", !.lo = -ReadConfig("fin_deflection_limit")]
    /\ UNCHANGED <<config, running, control_thread, current, mesh, thr, call, clock,
                   quiet, recorded, actuated, orchVars, est, surf, stat, applied, extVars>>

\* max(lo, min(self.config.fin_deflection_limit, deflection)), the append, and after
\* the last raw value the FinDeflections that execute_control_algorithm returns.
DiagClampHi ==
    /\ diag.pc = "t_clamp_hi"
    /\ LET l == ReadConfig("fin_deflection_limit")
           limited == Append(diag.lim, Clamp(diag.lo, l, diag.raw[Len(diag.lim) + 1]))
       IN  diag' = IF Len(limited) < Len(diag.raw)
                   THEN [diag EXCEPT !.pc = "t_clamp_lo", !.lim = limited, !.lo = 0]
                   ELSE [diag EXCEPT !.pc = "t_respond", !.lim = <<>>, !.lo = 0,
                                     !.out = MakeCommand(limited).fins]
    /\ UNCHANGED <<config, running, control_thread, current, mesh, thr, call, clock,
                   quiet, recorded, actuated, orchVars, est, surf, stat, applied, extVars>>

\* return jsonify({"success": True, "fin_deflections": {...}})
DiagRespondRecords ==
    /\ diag.pc = "t_respond"
    /\ diag' = IdleDiag
    /\ current' = FinDeflections(clock, diag.out, config.fin_deflection_limit)
    /\ UNCHANGED <<config, running, control_thread, mesh, thr, call, clock,
                   quiet, recorded, actuated, orchVars, est, surf, stat, applied, extVars>>

DiagRespond ==
    /\ diag.pc = "t_respond"
    /\ diag' = IdleDiag
    /\ UNCHANGED <<config, running, control_thread, current, mesh, thr, call, clock,
                   quiet, recorded, actuated, orchVars, est, surf, stat, applied, extVars>>

----------------------------------------------------------------------------
(* get_active_fin_control_status: the response is built from seven attribute
   reads of the manager, five of them of self.current_fin_deflections *)

\* "running": control_manager.running
StatusBegin ==
    /\ stat.pc = "idle"
    /\ stat' = [IdleStat EXCEPT !.pc = "q_enabled", !.running = running]
    /\ UNCHANGED <<config, running, control_thread, current, mesh, thr, call, clock,
                   quiet, recorded, actuated, orchVars, est, surf, diag, applied, extVars>>

\* "enabled": control_manager.config.enabled
StatusEnabled ==
    /\ stat.pc = "q_enabled"
    /\ stat' = [stat EXCEPT !.pc = "q_fin", !.enabled = config.enabled]
    /\ UNCHANGED <<config, running, control_thread, current, mesh, thr, call, clock,
                   quiet, recorded, actuated, orchVars, est, surf, diag, applied, extVars>>

\* "fin1" .. "fin4": control_manager.current_fin_deflections.fin<k>, the attribute
\* current_fin_deflections read anew for each
StatusFin ==
    /\ stat.pc = "q_fin"
    /\ LET k == Len(stat.fins) + 1
       IN  stat' = [stat EXCEPT !.fins = Append(@, current.fins[k]),
                                !.from = Append(@, current.ts),
                                !.pc = IF k = NFins THEN "q_ts" ELSE "q_fin"]
    /\ UNCHANGED <<config, running, control_thread, current, mesh, thr, call, clock,
                   quiet, recorded, actuated, orchVars, est, surf, diag, applied, extVars>>

\* "timestamp": control_manager.current_fin_deflections.timestamp
StatusTimestamp ==
    /\ stat.pc = "q_ts"
    /\ stat' = [stat EXCEPT !.ts = current.ts, !.from = Append(@, current.ts),
                             !.pc = "q_respond"]
    /\ UNCHANGED <<config, running, control_thread, current, mesh, thr, call, clock,
                   quiet, recorded, actuated, orchVars, est, surf, diag, applied, extVars>>

\* return jsonify({"success": True, "status": {...}})
StatusRespond ==
    /\ stat.pc = "q_respond"
    /\ stat' = IdleStat
    /\ UNCHANGED <<config, running, control_thread, current, mesh, thr, call, clock,
                   quiet, recorded, actuated, orchVars, est, surf, diag, applied, extVars>>

----------------------------------------------------------------------------
(* get_cfd_data: the request handler of /api/active-fin-control/cfd-data *)

\* `if control_manager.cfd_data_manager is None:` answers 400; otherwise the
\* handler calls control_manager._get_latest_cfd_data() in its own thread, which
\* goes through CFDDataManager.get_latest_cfd_data to extract_all_cfd_data.
GetCfdData ==
    /\ est.steps <= MaxCmds
    /\ IF est.created
       THEN \E elapsed \in BOOLEAN : est' = ExtractAll(est, elapsed)
       ELSE est' = est
    /\ UNCHANGED <<config, running, control_thread, current, mesh, thr, call, clock,
                   quiet, recorded, actuated, orchVars, surf, diag, stat, applied, extVars>>

-----------------------------------------------------------------------------
(* _get_latest_cfd_data -> CFDDataManager.get_latest_cfd_data ->
   OpenFOAMDataExtractor.extract_all_cfd_data, one call per thread, in two steps:
   up to the rate-limit test, and the rest of the body. No lock is taken. *)

\* Model bounds: the clock advances TickMs at a time, MaxTicks times, and
\* MaxExtractions calls are made.
TickMs == 5
MaxTicks == 3
MaxExtractions == 3

\* Time passes.
Tick ==
    /\ now < Epoch + MaxTicks * TickMs
    /\ now' = now + TickMs
    /\ UNCHANGED <<mgrVars, orchVars, est, surf, diag, stat, applied,
                   xt, files, xc, ret, hist>>

\* What _get_latest_cfd_data hands to its caller c for the dict d it got; via is
\* history: the return statement of extract_all_cfd_data that produced d.
Returned(c, d, via) ==
    [n |-> ret.n + 1, who |-> c, data |-> d, cfd |-> ToCFDData(d, now), via |-> via]

\* _get_latest_cfd_data reads config.cfd_time_step (the loop thread creates the
\* CFDDataManager when there is none, the request handler answers 400 then);
\* extract_all_cfd_data reads the time and returns the cached dict when the
\* last extraction is less than 10 ms old.
ExtractBegin(c) ==
    /\ xc[c].pc = "idle"
    /\ ret.n + Cardinality({d \in XCallers : xc[d].pc # "idle"}) < MaxExtractions
    /\ c = "request" => xt.created
    /\ xt' = [xt EXCEPT !.created = TRUE]
    /\ IF RateLimited(xt, now)
       THEN /\ ret' = Returned(c, CachedData(xt), "limited")
            /\ xc' = xc
       ELSE /\ xc' = [xc EXCEPT ![c] = [pc |-> "body", current_time |-> now,
                                        dt |-> config.cfd_time_step]]
            /\ ret' = ret
    /\ UNCHANGED <<mgrVars, orchVars, est, surf, diag, stat, applied,
                   files, now, hist>>

\* The rest of the try body: it runs to its end, or an exception escapes one of
\* its statements before the tables are read and the except branch returns the
\* cached dict.
ExtractFinish(c) ==
    /\ xc[c].pc = "body"
    /\ \E raised \in BOOLEAN :
          IF raised
          THEN /\ xt' = xt
               /\ ret' = Returned(c, CachedData(xt), "except")
               /\ hist' = hist
          ELSE /\ xt' = ExtractBody(xt, files, xc[c].current_time, xc[c].dt)
               /\ ret' = Returned(c, xt'.data_cache.last_cfd_data, "body")
               /\ hist' = Append(hist, <<ExtractForcesAndMoments(files.forces).moments,
                                         xc[c].dt>>)
    /\ xc' = [xc EXCEPT ![c] = IdleExtract]
    /\ UNCHANGED <<mgrVars, orchVars, est, surf, diag, stat, applied,
                   files, now>>

----------------------------------------------------------------------------
(* SimulationOrchestrator: start_simulation, stop_simulation, _control_loop *)

\* The control_algorithm texts posted to start_simulation.
OrchAlgorithms == {"steer", "throw", "syntax", "hang", "count"}

\* max_deflection = 15.0 in SimulationOrchestrator._control_loop
OrchMaxDeflection == 15

OrchIdle(c) == ocall[c].pc = "idle"

OrchReturn(c) == [ocall EXCEPT ![c] = IdleOrchCall]

OrchUnused == {t \in Threads : othr[t].st = "none"}

OrchCreating == {c \in Callers : ocall[c].pc \in {"o_cfd", "o_flag", "o_create"}}

\* `if self.simulation_running: return False`
OrchStartCheck(c, alg) ==
    /\ OrchIdle(c)
    /\ IF orch.simulation_running
       THEN ocall' = OrchReturn(c)
       ELSE /\ Cardinality(OrchUnused) > Cardinality(OrchCreating)
            /\ ocall' = [ocall EXCEPT ![c] = [IdleOrchCall EXCEPT !.pc = "o_cfd", !.alg = alg]]
    /\ UNCHANGED <<orch, othr, omesh, mgrVars, auxVars>>

\* self._start_local_simulation(): Popen of the solver succeeds, or raises and the
\* call returns False.
OrchStartCfd(c) ==
    /\ ocall[c].pc = "o_cfd"
    /\ \E started \in BOOLEAN :
          ocall' = IF started THEN [ocall EXCEPT ![c].pc = "o_flag"] ELSE OrchReturn(c)
    /\ UNCHANGED <<orch, othr, omesh, mgrVars, auxVars>>

\* self.control_loop_running = True
OrchStartFlag(c) ==
    /\ ocall[c].pc = "o_flag"
    /\ orch' = [orch EXCEPT !.control_loop_running = TRUE]
    /\ ocall' = [ocall EXCEPT ![c].pc = "o_create"]
    /\ UNCHANGED <<othr, omesh, mgrVars, auxVars>>

\* self.control_thread = threading.Thread(target=self._control_loop, args=(...))
OrchStartCreate(c) ==
    /\ ocall[c].pc = "o_create"
    /\ OrchUnused # {}
    /\ LET n == CHOOSE t \in OrchUnused : \A u \in OrchUnused : t <= u
       IN  /\ othr' = [othr EXCEPT ![n] = [IdleOrchThread EXCEPT !.st = "created", !.alg = ocall[c].alg]]
           /\ orch' = [orch EXCEPT !.control_thread = n]
    /\ ocall' = [ocall EXCEPT ![c].pc = "o_start"]
    /\ UNCHANGED <<omesh, mgrVars, auxVars>>

\* self.control_thread.start(); a RuntimeError (thread already started) is caught
\* by start_simulation's `except Exception`, which returns False.
OrchStartRun(c) ==
    /\ ocall[c].pc = "o_start"
    /\ IF othr[orch.control_thread].st = "created"
       THEN /\ othr' = [othr EXCEPT ![orch.control_thread].st = "alive"]
            /\ ocall' = [ocall EXCEPT ![c].pc = "o_done"]
       ELSE /\ othr' = othr
            /\ ocall' = OrchReturn(c)
    /\ UNCHANGED <<orch, omesh, mgrVars, auxVars>>

\* self.simulation_running = True; return True
OrchStartDone(c) ==
    /\ ocall[c].pc = "o_done"
    /\ orch' = [orch EXCEPT !.simulation_running = TRUE]
    /\ ocall' = OrchReturn(c)
    /\ UNCHANGED <<othr, omesh, mgrVars, auxVars>>

\* stop_simulation: self.control_loop_running = False
OrchStopFlag(c) ==
    /\ OrchIdle(c)
    /\ orch' = [orch EXCEPT !.control_loop_running = FALSE]
    /\ ocall' = [ocall EXCEPT ![c] = [IdleOrchCall EXCEPT !.pc = "o_read"]]
    /\ UNCHANGED <<othr, omesh, mgrVars, auxVars>>

\* `if self.control_thread: self.control_thread.join(timeout=5)` : join raises
\* RuntimeError on a thread not yet started, which `except Exception` turns into
\* return False (simulation_running is left as it was).
OrchStopRead(c) ==
    /\ ocall[c].pc = "o_read"
    /\ ocall' = IF orch.control_thread = 0
                THEN [ocall EXCEPT ![c].pc = "o_stopped"]
                ELSE IF othr[orch.control_thread].st = "created"
                THEN OrchReturn(c)
                ELSE [ocall EXCEPT ![c].pc = "o_join", ![c].tgt = orch.control_thread]
    /\ UNCHANGED <<orch, othr, omesh, mgrVars, auxVars>>

\* join(timeout=5) returns when the thread has ended or when the 5 s have passed.
OrchStopJoin(c) ==
    /\ ocall[c].pc = "o_join"
    /\ \E timedOut \in BOOLEAN : timedOut \/ othr[ocall[c].tgt].st = "dead"
    /\ ocall' = [ocall EXCEPT ![c].pc = "o_stopped", ![c].tgt = 0]
    /\ UNCHANGED <<orch, othr, omesh, mgrVars, auxVars>>

\* self._stop_local_simulation(); self.simulation_running = False; return True
OrchStopDone(c) ==
    /\ ocall[c].pc = "o_stopped"
    /\ orch' = [orch EXCEPT !.simulation_running = FALSE]
    /\ ocall' = OrchReturn(c)
    /\ UNCHANGED <<othr, omesh, mgrVars, auxVars>>

OrchAlive(t) == othr[t].st = "alive"

OrchExit(t) == [othr EXCEPT ![t] = [IdleOrchThread EXCEPT !.st = "dead"]]

\* The head of _control_loop, inside the outer try only: js_context.eval(control_algorithm).
\* A source that does not parse raises here, the outer `except Exception` prints
\* the error and the thread function returns.
OrchLoopInit(t) ==
    /\ OrchAlive(t) /\ othr[t].pc = "init"
    /\ othr' = IF ParseOk(othr[t].alg) THEN [othr EXCEPT ![t].pc = "top"] ELSE OrchExit(t)
    /\ UNCHANGED <<orch, ocall, omesh, mgrVars, auxVars>>

\* `while self.control_loop_running:`
OrchLoopTop(t) ==
    /\ OrchAlive(t) /\ othr[t].pc = "top"
    /\ IF orch.control_loop_running
       THEN /\ othr[t].n < MaxCmds
            /\ othr' = [othr EXCEPT ![t].pc = "cycle", ![t].out = <<>>]
       ELSE othr' = OrchExit(t)
    /\ UNCHANGED <<orch, ocall, omesh, mgrVars, auxVars>>

\* [max(-15.0, min(15.0, d)) for d in fin_deflections]
OrchLimited(raw) == [i \in DOMAIN raw |-> Clamp(-OrchMaxDeflection, OrchMaxDeflection, raw[i])]

\* One pass of the inner try: get the CFD data (an empty dict skips the rest),
\* call calculateFinDeflections in js_context, the one context made before the
\* while loop, clamp to 15.0, hand the four values to the mesh
\* manager. Whatever raises (the function throws, fewer than four values) is
\* caught by the inner `except Exception`, which sleeps 0.1 s.
OrchCycle(t) ==
    /\ OrchAlive(t) /\ othr[t].pc = "cycle"
    /\ \E hasData \in BOOLEAN :
          LET r == CallInContext(othr[t].alg, LoopInput, othr[t].n)
              n == IF othr[t].alg = "count" THEN othr[t].n + 1 ELSE othr[t].n
          IN  IF ~hasData
              THEN othr' = [othr EXCEPT ![t].pc = "sleep"] /\ omesh' = omesh
              ELSE IF r.kind = "hang"
              THEN othr' = [othr EXCEPT ![t].pc = "hung"] /\ omesh' = omesh
              ELSE IF r.kind = "raise" \/ Len(r.raw) < NFins
              THEN othr' = [othr EXCEPT ![t].pc = "top"] /\ omesh' = omesh
              ELSE /\ othr' = [othr EXCEPT ![t].pc = "sleep", ![t].n = n, ![t].out = r.raw]
                   /\ omesh' = SubSeq(OrchLimited(r.raw), 1, NFins)
    /\ UNCHANGED <<orch, ocall, mgrVars, auxVars>>

\* time.sleep(1.0 / self.control_update_rate)
OrchSleep(t) ==
    /\ OrchAlive(t) /\ othr[t].pc = "sleep"
    /\ othr' = [othr EXCEPT ![t].pc = "top"]
    /\ UNCHANGED <<orch, ocall, omesh, mgrVars, auxVars>>

----------------------------------------------------------------------------
(* Specifications *)

LoopStep(t) ==
    \/ LoopTop(t)
    \/ Extract(t)
    \/ Eval(t)
    \/ ClampLo(t)
    \/ ClampHi(t)
    \/ Record(t)
    \/ Actuate(t)
    \/ Sleep(t)

\* Concurrent start and stop requests on a manager with the configuration it was
\* constructed with.
Next ==
    \/ \E c \in Callers : StartCheck(c)
    \/ \E c \in Callers : StartReturn(c)
    \/ \E c \in Callers : StartSet(c)
    \/ \E c \in Callers : StartCreate(c)
    \/ \E c \in Callers : StartRun(c)
    \/ \E c \in Callers : StopSet(c)
    \/ \E c \in Callers : StopRead(c)
    \/ \E c \in Callers : StopJoin(c)
    \/ \E c \in Callers : Respond500(c)
    \/ \E t \in Threads : LoopTop(t)
    \/ \E t \in Threads : Extract(t)
    \/ \E t \in Threads : Eval(t)
    \/ \E t \in Threads : Record(t)
    \/ \E t \in Threads : Actuate(t)
    \/ \E t \in Threads : Sleep(t)

Spec == Init /\ [][Next]_vars

\* One request handler at a time (start, stop, update_config) beside the loop thread.
CfgCaller == "c1"

NextCfg ==
    \/ StartCheck(CfgCaller)
    \/ StartReturn(CfgCaller)
    \/ StartSet(CfgCaller)
    \/ StartCreate(CfgCaller)
    \/ StartRun(CfgCaller)
    \/ StopSet(CfgCaller)
    \/ StopRead(CfgCaller)
    \/ StopJoin(CfgCaller)
    \/ \E i \in DOMAIN ConfigInputs : UpdateBegin(CfgCaller, i)
    \/ UpdateWrite(CfgCaller)
    \/ \E t \in Threads : LoopTop(t)
    \/ \E t \in Threads : Extract(t)
    \/ \E t \in Threads : Eval(t)
    \/ \E t \in Threads : ClampLo(t)
    \/ \E t \in Threads : ClampHi(t)
    \/ \E t \in Threads : Record(t)
    \/ \E t \in Threads : Actuate(t)
    \/ \E t \in Threads : Sleep(t)

SpecCfg == Init /\ [][NextCfg]_vars

\* The request bodies of OtherInputs, as positions in RequestBodies.
OtherIds == (Len(ConfigInputs) + 1)..Len(RequestBodies)

\* update_config requests with the bodies of OtherInputs, made one after the other
\* before and while the loop runs.
NextVal ==
    \/ StartCheck(CfgCaller)
    \/ StartReturn(CfgCaller)
    \/ StartSet(CfgCaller)
    \/ StartCreate(CfgCaller)
    \/ StartRun(CfgCaller)
    \/ \E i \in OtherIds : UpdateBegin(CfgCaller, i)
    \/ UpdateWrite(CfgCaller)
    \/ \E t \in Threads : LoopTop(t)
    \/ \E t \in Threads : Extract(t)
    \/ \E t \in Threads : Eval(t)
    \/ \E t \in Threads : ClampLo(t)
    \/ \E t \in Threads : ClampHi(t)
    \/ \E t \in Threads : Record(t)
    \/ \E t \in Threads : Actuate(t)
    \/ \E t \in Threads : Sleep(t)

SpecVal == Init /\ [][NextVal]_vars

\* Algorithm sources, deflection limits and raw deflections for single evaluations.
Algorithms == {"", "steer", "short", "throw", "syntax", "hang", "echo", "count"}

Limits == {0, 5, 15}

RawValues == {-20, -5, 0, 5, 20}

RawVectors == [1..NFins -> RawValues]

\* A manager that was configured (update_config has returned) and not started.
InitEval ==
    /\ \E a \in Algorithms, l \in Limits :
          config = [DefaultConfig EXCEPT !.control_code = a, !.fin_deflection_limit = l]
    /\ surf = NoSurfaces
    /\ files = NoTables
    /\ Constructed

\* Test requests, one after the other, each with its own sample data.
NextEval ==
    \/ \E input \in RawVectors : DiagBegin(input)
    \/ DiagEval
    \/ DiagClampLo
    \/ DiagClampHi
    \/ DiagRespond

SpecEval == InitEval /\ [][NextEval]_vars

\* The sample data of the test requests made beside a running loop.
DiagInput == <<20, -20, 5, 0>>

\* A manager configured with the default or with the first request body.
InitDiag ==
    /\ config \in {DefaultConfig, ResolveConfig(ConfigInputs[1])}
    /\ surf = NoSurfaces
    /\ files = NoTables
    /\ Constructed

\* Test requests made while start and stop requests arrive and the loop runs.
NextDiag ==
    \/ StartCheck(CfgCaller)
    \/ StartReturn(CfgCaller)
    \/ StartSet(CfgCaller)
    \/ StartCreate(CfgCaller)
    \/ StartRun(CfgCaller)
    \/ StopSet(CfgCaller)
    \/ StopRead(CfgCaller)
    \/ StopJoin(CfgCaller)
    \/ \E t \in Threads : LoopTop(t)
    \/ \E t \in Threads : Extract(t)
    \/ \E t \in Threads : Eval(t)
    \/ \E t \in Threads : ClampLo(t)
    \/ \E t \in Threads : ClampHi(t)
    \/ \E t \in Threads : Record(t)
    \/ \E t \in Threads : Actuate(t)
    \/ \E t \in Threads : Sleep(t)
    \/ DiagBegin(DiagInput)
    \/ DiagEval
    \/ DiagClampLo
    \/ DiagClampHi
    \/ DiagRespond

SpecDiag == InitDiag /\ [][NextDiag]_vars

\* A manager configured with the first request body, not started.
InitStat ==
    /\ config = ResolveConfig(ConfigInputs[1])
    /\ surf = NoSurfaces
    /\ files = NoTables
    /\ Constructed

\* Status and CFD-data requests made while a start request arrives and the loop runs.
NextStat ==
    \/ StartCheck(CfgCaller)
    \/ StartReturn(CfgCaller)
    \/ StartSet(CfgCaller)
    \/ StartCreate(CfgCaller)
    \/ StartRun(CfgCaller)
    \/ \E t \in Threads : LoopTop(t)
    \/ \E t \in Threads : Extract(t)
    \/ \E t \in Threads : Eval(t)
    \/ \E t \in Threads : ClampLo(t)
    \/ \E t \in Threads : ClampHi(t)
    \/ \E t \in Threads : Record(t)
    \/ \E t \in Threads : Actuate(t)
    \/ \E t \in Threads : Sleep(t)
    \/ StatusBegin
    \/ StatusEnabled
    \/ StatusFin
    \/ StatusTimestamp
    \/ StatusRespond
    \/ GetCfdData

SpecStat == InitStat /\ [][NextStat]_vars

\* Fin configurations handed to setup_dynamic_mesh: the default ones, and ones
\* that lack the attachment point of fin3 or the rotation axis of fin4.
FinConfigChoices ==
    { DefaultFinConfigs,
      [DefaultFinConfigs EXCEPT !.fin3 = [stl_path |-> "geometries/fin3.stl",
                                          rotation_axis |-> <<1, 0, 0>>]],
      [DefaultFinConfigs EXCEPT !.fin4 = [stl_path |-> "geometries/fin4.stl",
                                          attachment_point |-> <<-1, 0, 0>>]] }

\* The STL files present: all four, all but that of fin2, none.
DiskChoices == { {"fin1", "fin2", "fin3", "fin4"}, {"fin1", "fin3", "fin4"}, {} }

\* Deflection angles handed to update_fin_positions.
Angles == {0, 90}

\* A manager whose dynamic mesh has been set up.
InitMesh ==
    /\ config = DefaultConfig
    /\ \E cfgs \in FinConfigChoices, disk \in DiskChoices :
          surf = SetupDynamicMesh(cfgs, disk)
    /\ files = NoTables
    /\ Constructed

\* dynamic_mesh_manager.update_fin_positions(deflections), command after command.
Morph(fins) ==
    /\ surf.created
    /\ surf' = UpdateFinPositions(surf, fins)
    /\ UNCHANGED <<config, running, control_thread, current, mesh, thr, call, clock,
                   quiet, recorded, actuated, orchVars, est, diag, stat, applied, extVars>>

NextMesh == \E fins \in [1..NFins -> Angles] : Morph(fins)

SpecMesh == InitMesh /\ [][NextMesh]_vars

\* Concurrent start_simulation and stop_simulation requests on one orchestrator.
NextOrch ==
    \/ \E c \in Callers, alg \in OrchAlgorithms : OrchStartCheck(c, alg)
    \/ \E c \in Callers : OrchStartCfd(c)
    \/ \E c \in Callers : OrchStartFlag(c)
    \/ \E c \in Callers : OrchStartCreate(c)
    \/ \E c \in Callers : OrchStartRun(c)
    \/ \E c \in Callers : OrchStartDone(c)
    \/ \E c \in Callers : OrchStopFlag(c)
    \/ \E c \in Callers : OrchStopRead(c)
    \/ \E c \in Callers : OrchStopJoin(c)
    \/ \E c \in Callers : OrchStopDone(c)
    \/ \E t \in Threads : OrchLoopInit(t)
    \/ \E t \in Threads : OrchLoopTop(t)
    \/ \E t \in Threads : OrchCycle(t)
    \/ \E t \in Threads : OrchSleep(t)

SpecOrch == Init /\ [][NextOrch]_vars

\* The estimator alone: the tables found in the case directory and the time
\* step configured are drawn at the start; the loop thread and the request
\* handler extract while time passes.
\* The first line of each forces table is its header, two words.
ForcesTables ==
    { MissingForces,
      [exists |-> TRUE, lines |-> << <<NotANumber, NotANumber>> >>],
      [exists |-> TRUE, lines |-> << <<NotANumber, NotANumber>>,
          <<Num(10), Num(100), Num(0), Num(-50), Num(1), Num(0), Num(0)>> >>],
      [exists |-> TRUE, lines |-> << <<NotANumber, NotANumber>>,
          <<Num(100), Num(0), Num(-50), Num(1), Num(0), Num(0)>> >>],
      [exists |-> TRUE, lines |-> << <<NotANumber, NotANumber>>,
          <<Num(10), Num(100), Num(0), Num(-50), Num(1)>> >>],
      [exists |-> TRUE, lines |-> << <<NotANumber, NotANumber>>,
          <<Num(10), Num(100), NotANumber, Num(-50), Num(1), Num(0), Num(0)>> >>] }

PressureTables ==
    { MissingPressure,
      [exists |-> TRUE, min |-> Match(200000), max |-> Match(204000)],
      [exists |-> TRUE, min |-> Match(200000), max |-> NoMatch],
      [exists |-> TRUE, min |-> Match(200000), max |-> BadMatch] }

VelocityTables ==
    { MissingVelocity,
      [exists |-> TRUE, min |-> <<Match(20), Match(0), Match(-4)>>,
                        max |-> <<Match(60), Match(0), Match(4)>>],
      [exists |-> TRUE, min |-> <<NoMatch, NoMatch, NoMatch>>,
                        max |-> <<Match(60), NoMatch, NoMatch>>] }

TimeSteps == {10, 100}

InitExt ==
    /\ \E dt \in TimeSteps : config = [DefaultConfig EXCEPT !.cfd_time_step = dt]
    /\ surf = NoSurfaces
    /\ files \in [forces : ForcesTables, pressure : PressureTables,
                  velocity : VelocityTables]
    /\ Constructed

NextExt ==
    \/ Tick
    \/ \E c \in XCallers : ExtractBegin(c)
    \/ \E c \in XCallers : ExtractFinish(c)

SpecExt == InitExt /\ [][NextExt]_vars

\* SpecCfg with the scheduling the interpreter guarantees: a thread that can take
\* its next step eventually takes it, and a call that has begun goes on. Nothing
\* makes a request arrive, and nothing makes a supplied algorithm return.
FairCfg ==
    /\ SpecCfg
    /\ \A t \in Threads : WF_vars(LoopStep(t))
    /\ WF_vars(StartReturn(CfgCaller) \/ StartSet(CfgCaller) \/ StartCreate(CfgCaller)
               \/ StartRun(CfgCaller))
    /\ WF_vars(StopRead(CfgCaller) \/ StopJoin(CfgCaller))
    /\ WF_vars(UpdateWrite(CfgCaller))

----------------------------------------------------------------------------
(* Claims *)

WithinLimit(cmd) ==
    \A i \in 1..NFins : -cmd.glim <= cmd.fins[i] /\ cmd.fins[i] <= cmd.glim

\* C1: every command the pipeline produces (the one execute_control_algorithm
\* returned to the loop, the one recorded as current_fin_deflections, the one
\* handed to the mesh manager) has its four deflections within [-limit, +limit]
\* for the limit the configuration held when the command was constructed.
C1_CommandsWithinLimit ==
    /\ WithinLimit(current)
    /\ WithinLimit(mesh)
    /\ \A t \in Threads :
          Alive(t) /\ thr[t].pc \in {"record", "actuate"} => WithinLimit(thr[t].cmd)

\* C2: at most one control-loop thread of the manager is executing a cycle.
C2_AtMostOneLoopThread == Cardinality({t \in Threads : InCycle(t)}) <= 1

LiveThreads == {t \in Threads : thr[t].st \in {"created", "alive"}}

\* C3: a start request that finds the manager running returns at once: it creates
\* and starts no thread and leaves the flag true; with requests made one after
\* the other there is never more than one loop thread.
C3_StartWhileRunningIsNoOp ==
    /\ [][\A c \in Callers :
            (Idle(c) /\ running /\ call'[c].pc \in {"s_ret", "s_set"})
            => (call'[c].pc = "s_ret" /\ running' /\ thr' = thr
                /\ control_thread' = control_thread)]_vars
    /\ [][\A c \in Callers :
            (call[c].pc = "s_ret" /\ call'[c].pc # "s_ret")
            => (Idle(c)' /\ running' = running /\ thr' = thr
                /\ control_thread' = control_thread)]_vars
    /\ [](Cardinality(LiveThreads) <= 1)

C3_Witness ==
    /\ call[CfgCaller].pc = "s_ret"
    /\ running
    /\ Cardinality({t \in Threads : Alive(t)}) = 1
    /\ clock >= 1

\* C4: a loop thread ends only after a stop request has cleared its running flag,
\* never because something failed (the manager's loop and the orchestrator's).
C4_LoopEndsOnlyOnStop ==
    [][/\ \A t \in Threads : (Alive(t) /\ thr'[t].st = "dead") => ~running
       /\ \A t \in Threads :
             (OrchAlive(t) /\ othr'[t].st = "dead") => ~orch.control_loop_running]_vars

\* C5: every stop_control_loop call eventually returns.
C5_StopEventuallyReturns ==
    (call[CfgCaller].pc \in {"st_read", "st_join"}) ~> Idle(CfgCaller)

\* Never started, or already stopped: the flag is false and no thread object is
\* waiting to run or running.
ManagerIdle == ~running /\ LiveThreads = {}

\* C6: stop_control_loop on an idle manager does not raise, waits for no thread,
\* and leaves running = false and every other field of the manager as it was.
C6_StopWhileIdleIsNoOp ==
    [][\A c \in Callers :
         (/\ ManagerIdle
          /\ \/ Idle(c) /\ call'[c].pc = "st_read"
             \/ call[c].pc = "st_read" /\ call'[c].pc # "st_read")
         => (/\ ~running'
             /\ call'[c].pc \in {"st_read", "idle"}
             /\ UNCHANGED <<config, current, mesh, thr, control_thread, clock>>)]_vars

C6_Witness ==
    /\ call[CfgCaller].pc = "st_read"
    /\ quiet
    /\ ManagerIdle
    /\ control_thread # 0
    /\ thr[control_thread].st = "dead"

\* C7: once a stop request has returned and no start request was in progress
\* or issued since, no further command is recorded or handed to the mesh.
C7_NothingAfterStopReturned ==
    [][quiet => UNCHANGED <<current, mesh, recorded, actuated>>]_vars

\* C8 as stated: a command is visible as current_fin_deflections only after it
\* was handed to the mesh manager.
C8_VisibleOnlyAfterActuation == current.ts = 0 \/ current.ts \in actuated

\* C8 as the loop does it: extract, evaluate, clamp, record, actuate: a command
\* is handed to the mesh manager only after it was recorded as current.
C8_ActuatedOnlyAfterRecorded ==
    /\ actuated \subseteq recorded
    /\ \A t \in Threads :
          /\ Alive(t) /\ thr[t].pc = "record"
               => thr[t].cmd.ts \notin recorded /\ thr[t].cmd.ts \notin actuated
          /\ Alive(t) /\ thr[t].pc = "actuate"
               => thr[t].cmd.ts \in recorded /\ thr[t].cmd.ts \notin actuated
          /\ Alive(t) /\ thr[t].pc = "sleep" => thr[t].cmd.ts \in actuated

C8_Witness ==
    \E t \in Threads :
        /\ Alive(t) /\ thr[t].pc = "sleep"
        /\ mesh = thr[t].cmd /\ current = thr[t].cmd
        /\ thr[t].cmd.fins = <<5, -5, 5, 0>>

\* C9: a cycle that began when no update_config call was under way, and during
\* which none has begun, has read every configuration value it used (time step,
\* algorithm source, deflection limit, update rate) as the configuration holds it.
C9_CycleUsesLatestConfig ==
    \A t \in Threads :
        Alive(t) /\ thr[t].fresh
        => \A f \in DOMAIN NoObs : thr[t].obs[f] \subseteq {config[f]}

C9_Witness ==
    /\ Alive(1) /\ thr[2].st = "none"
    /\ thr[1].fresh /\ thr[1].pc = "record"
    /\ current.ts = 1 /\ current.glim = DefaultConfig.fin_deflection_limit
    /\ thr[1].obs.cfd_time_step = {20}
    /\ thr[1].obs.control_code = {"steer"}
    /\ thr[1].obs.fin_deflection_limit = {5}

\* The configurations ever asked for: the constructed one and each request body
\* with its defaults filled in.
WholeConfigs ==
    {DefaultConfig} \cup {ResolveConfig(ConfigInputs[i]) : i \in DOMAIN ConfigInputs}

\* C11: no configuration with a negative deflection limit, or with an update rate
\* or time step that is not positive, is ever stored, and no cycle reads one.
C11_InvalidConfigNeverStored ==
    /\ config.fin_deflection_limit >= 0
    /\ config.control_update_rate > 0
    /\ config.cfd_time_step > 0
    /\ \A t \in Threads :
          /\ \A v \in thr[t].obs.fin_deflection_limit : v >= 0
          /\ \A v \in thr[t].obs.control_update_rate : v > 0
          /\ \A v \in thr[t].obs.cfd_time_step : v > 0

\* C12: when an update_config(d) call has returned, every field present in d has
\* d's value and every other field its default, whatever was configured before;
\* so repeating the call changes nothing and the empty body restores the defaults.
C12_UpdateResolvesAgainstDefaults ==
    (applied # 0 /\ ~UpdateInProgress)
    => /\ config = ResolveConfig(RequestBodies[applied])
       /\ \A f \in DOMAIN config :
             config[f] = IF f \in DOMAIN RequestBodies[applied]
                         THEN RequestBodies[applied][f]
                         ELSE DefaultConfig[f]
       /\ (DOMAIN RequestBodies[applied] = {} => config = DefaultConfig)

C12_Witness ==
    /\ applied # 0 /\ ~UpdateInProgress
    /\ DOMAIN RequestBodies[applied] = {}
    /\ config = DefaultConfig
    /\ \E t \in Threads : -5 \in thr[t].obs.fin_deflection_limit

\* Sources whose evaluation fails: no function defined, three values returned,
\* the function throws, the text does not parse.
FailingSources == {"", "short", "throw", "syntax"}

\* C13: an evaluation of a failing source returns the neutral command
\* <<0, 0, 0, 0>> to its caller, and every command returned has four values.
C13_FailSafeNeutral ==
    diag.pc = "t_respond"
    => /\ Len(diag.out) = NFins
       /\ diag.code \in FailingSources => diag.out = <<0, 0, 0, 0>>

C13_Witness ==
    /\ diag.pc = "t_respond"
    /\ diag.code = "short"
    /\ config.fin_deflection_limit = 15
    /\ diag.out = <<0, 0, 0, 0>>

\* C14: every evaluation returns what the algorithm returns in a context of its
\* own, whatever was evaluated before: in the manager (test requests and cycles)
\* and in the orchestrator's loop.
C14_EvaluationIndependentOfHistory ==
    /\ (diag.pc \in {"t_clamp_lo", "t_clamp_hi"})
          => diag.raw = Calculate(diag.code, diag.input).raw
    /\ \A t \in Threads :
          (Alive(t) /\ thr[t].pc \in {"clamp_lo", "clamp_hi"})
          => \E code \in thr[t].obs.control_code : thr[t].raw = Calculate(code, LoopInput).raw
    /\ \A t \in Threads :
          (OrchAlive(t) /\ othr[t].out # <<>>)
          => othr[t].out = Calculate(othr[t].alg, LoopInput).raw

\* C17: the four deflections and the timestamp of one status response were all
\* read from the same command.
C17_StatusNotTorn ==
    \A i, j \in DOMAIN stat.from : stat.from[i] = stat.from[j]

\* C18: the estimator's integration state changes only in the extract step of a
\* cycle of a loop thread.
C18_EstimatorSteppedOnlyByLoop ==
    [][est'.steps # est.steps
       => \E t \in Threads : Alive(t) /\ thr[t].pc = "extract" /\ thr'[t].pc = "eval"]_vars

\* C19: the stored geometry of every loaded surface is the one read at setup,
\* and after a command that succeeded each artifact is that geometry rotated by
\* the command's own angle about the bound point and axis (so angles do not
\* accumulate and a zero angle reproduces the base).
C19_BaseGeometryNeverMutated ==
    /\ \A f \in DOMAIN surf.fin_geometries : surf.fin_geometries[f] = DiskGeometry
    /\ (surf.cmd # <<>> /\ surf.ok)
         => \A k \in 1..NFins :
               /\ FinIds[k] \in DOMAIN surf.stl
               /\ surf.stl[FinIds[k]] =
                     RotateAbout(DiskGeometry, surf.fin_attachment_points[FinIds[k]],
                                 surf.fin_axes[FinIds[k]], surf.cmd[k])
               /\ surf.cmd[k] = 0 => surf.stl[FinIds[k]] = DiskGeometry

C19_Witness ==
    /\ surf.cmd = <<90, 0, 90, 90>> /\ surf.ok
    /\ surf.prev # NoEntries
    /\ surf.prev # surf.stl
    /\ surf.stl.fin1 = << <<0, 1, -1>>, <<1, 1, 1>>, <<0, -2, 1>> >>
    /\ surf.stl.fin2 = DiskGeometry

\* C20: a command that failed (a surface without geometry, point or axis) left
\* the artifacts of all surfaces as they were before it.
C20_FailedActuationKeepsArtifacts ==
    (surf.cmd # <<>> /\ ~surf.ok) => surf.stl = surf.prev

\* C15: no step of a test request changes the running flag, the configuration,
\* the recorded command, the estimator, the surfaces or the loop threads.
C15_TestLeavesLoopAlone ==
    [][diag' # diag
       => UNCHANGED <<running, config, current, est, surf, mesh, recorded, actuated,
                      thr, control_thread>>]_vars

C15_Witness ==
    /\ diag.pc = "t_respond"
    /\ diag.out = <<15, -15, 5, 0>>
    /\ \E t \in Threads : InCycle(t)
    /\ current.ts >= 1
    /\ running

\* C16: for a limit >= 0 each returned deflection is max(-limit, min(limit, raw)):
\* within [-limit, limit], equal to the raw value when that is within the range,
\* and <<20, -20, 5, 0>> with limit 15 gives <<15, -15, 5, 0>>.
C16_ClampIsTotalAndBounded ==
    (diag.pc = "t_respond" /\ diag.code = "echo" /\ config.fin_deflection_limit >= 0)
    => LET l == config.fin_deflection_limit
       IN  /\ \A i \in 1..NFins :
                 /\ -l <= diag.out[i] /\ diag.out[i] <= l
                 /\ (-l <= diag.input[i] /\ diag.input[i] <= l)
                      => diag.out[i] = diag.input[i]
                 /\ diag.input[i] > l => diag.out[i] = l
                 /\ diag.input[i] < -l => diag.out[i] = -l
           /\ (diag.input = <<20, -20, 5, 0>> /\ l = 15) => diag.out = <<15, -15, 5, 0>>

C16_Witness ==
    /\ diag.pc = "t_respond" /\ diag.code = "echo"
    /\ config.fin_deflection_limit = 15
    /\ diag.input = <<20, -20, 5, 0>>
    /\ diag.out = <<15, -15, 5, 0>>

\* C21: a call of the extraction made less than 10 ms after the time of the state
\* cached by the previous successful extraction returns at once with that cached
\* state, and leaves the estimator's attitude, angular velocity, position, cached
\* state and last-extraction time as they were (no integration took place).
C21_RateLimitedReturnsCache ==
    [][\A c \in XCallers :
          (/\ xc[c].pc = "idle"
           /\ xc'[c] # xc[c] \/ (ret'.n # ret.n /\ ret'.who = c)
           /\ "last_cfd_data" \in xt.data_cache.keys
           /\ now - xt.data_cache.last_cfd_data.timestamp < 10)
          => /\ ret'.n = ret.n + 1
             /\ ret'.data = xt.data_cache.last_cfd_data
             /\ xt'.data_cache = xt.data_cache
             /\ xt'.last_extraction_time = xt.last_extraction_time
             /\ hist' = hist]_vars

C21_Witness ==
    /\ ret.n = 2 /\ Len(hist) = 1 /\ ret.via = "limited"
    /\ \A c \in XCallers : xc[c].pc = "idle"
    /\ ret.data.filled
    /\ ret.data.timestamp < now /\ now - ret.data.timestamp < 10
    /\ ret.data = xt.data_cache.last_cfd_data

\* C22: the timestamps of the states handed out by successive extractions on one
\* estimator never decrease, whoever the callers are.
C22_TimestampsNonDecreasing ==
    [][(ret'.n # ret.n /\ ret.n > 0) => ret'.cfd.timestamp >= ret.cfd.timestamp]_vars

\* C23: an extraction whose body fails hands out the last cached state, or, when
\* none was cached yet, the default state: zero vectors, pressure 101325 Pa,
\* temperature 288 K.
C23_FailureReturnsCacheOrDefault ==
    [][\A c \in XCallers :
          (xc[c].pc = "body" /\ xc'[c].pc = "idle" /\ hist' = hist)
          => /\ ret'.n = ret.n + 1
             /\ xt' = xt
             /\ IF "last_cfd_data" \in xt.data_cache.keys
                THEN /\ ret'.data = xt.data_cache.last_cfd_data
                     /\ ret'.cfd.timestamp = xt.data_cache.last_cfd_data.timestamp
                     /\ ret'.cfd.attitude = xt.data_cache.last_cfd_data.attitude
                     /\ ret'.cfd.position = xt.data_cache.last_cfd_data.position
                     /\ ret'.cfd.pressure = xt.data_cache.last_cfd_data.pressure
                ELSE /\ ret'.cfd.attitude = <<0, 0, 0>>
                     /\ ret'.cfd.velocity = <<0, 0, 0>>
                     /\ ret'.cfd.position = <<0, 0, 0>>
                     /\ ret'.cfd.angular_velocity = <<0, 0, 0>>
                     /\ ret'.cfd.pressure = 2 * 101325
                     /\ ret'.cfd.temperature = 288]_vars

C23_Witness ==
    /\ ret.n = 1 /\ hist = <<>> /\ ret.via = "except"
    /\ ~ret.data.filled
    /\ ret.cfd.timestamp = now
    /\ ret.cfd.pressure = 2 * 101325 /\ ret.cfd.temperature = 288

\* The forces table has a last row to parse, and all its tokens are numbers.
NumericRow(f) ==
    /\ f.exists /\ Len(f.lines) >= 2
    /\ \A k \in 1..Len(f.lines[Len(f.lines)]) : f.lines[Len(f.lines)][k].ok

\* C24: in the state a completed extraction hands out, a missing or malformed
\* forces table gives zero forces and moments, a missing pressure table gives
\* 101325 Pa, a missing velocity table gives zero velocity, and each table that
\* is present and well formed is reported whatever the state of the other two.
C24_TablesFailIndependently ==
    ret.data.filled =>
        /\ (~NumericRow(files.forces))
              => ret.data.forces = <<0, 0, 0>> /\ ret.data.moments = <<0, 0, 0>>
        /\ (NumericRow(files.forces) /\ Len(files.forces.lines[2]) = 7)
              => ret.data.forces = <<100, 0, -50>> /\ ret.data.moments = <<1, 0, 0>>
        /\ ~files.pressure.exists => ret.data.pressure = 2 * 101325
        /\ (files.pressure.exists /\ files.pressure.max = Match(204000))
              => ret.data.pressure = 202000
        /\ ~files.velocity.exists => ret.data.velocity = <<0, 0, 0>>
        /\ (files.velocity.exists /\ files.velocity.min[1].found)
              => ret.data.velocity = <<40, 0, 0>>

C24_Witness ==
    /\ ret.data.filled
    /\ ~files.forces.exists
    /\ ret.data.moments = <<0, 0, 0>>
    /\ ret.data.pressure = 202000
    /\ ret.data.velocity = <<40, 0, 0>>

\* C25: the forces read are the zero default exactly when the table has fewer
\* than 2 lines or its last row fewer than 6 columns; a numeric last row of 7
\* columns gives forces and moments from the columns after the time, a numeric
\* last row of exactly 6 columns gives its columns 1-3 and 4-6.
C25_SixColumnsAreParsed ==
    (ret.data.filled /\ NumericRow(files.forces)) =>
        LET row == files.forces.lines[Len(files.forces.lines)]
        IN  /\ Len(row) < 6
               => ret.data.forces = <<0, 0, 0>> /\ ret.data.moments = <<0, 0, 0>>
            /\ Len(row) >= 7
               => /\ ret.data.forces = <<row[2].v, row[3].v, row[4].v>>
                  /\ ret.data.moments = <<row[5].v, row[6].v, row[7].v>>
            /\ Len(row) = 6
               => /\ ret.data.forces = <<row[1].v, row[2].v, row[3].v>>
                  /\ ret.data.moments = <<row[4].v, row[5].v, row[6].v>>

\* C26: every extraction that is neither rate-limited nor failed advances the
\* estimator by one explicit Euler step, omega' = omega + (moment / I) dt with
\* I = (0.1, 0.1, 0.05) and attitude' = attitude + omega' dt, and no other step
\* changes them; from a fresh estimator with moments (0.01, 0, 0) and dt = 0.1 the
\* first extraction gives omega_x = 0.01, roll = 0.001, the second 0.02 and 0.003.
C26_ExplicitEulerStep ==
    /\ [][IF hist' # hist
          THEN LET m == hist'[Len(hist')][1]
                   dt == hist'[Len(hist')][2]
                   w == xt.data_cache.angular_velocity
                   a == xt.data_cache.attitude
                   w2 == xt'.data_cache.angular_velocity
                   a2 == xt'.data_cache.attitude
               IN  /\ Len(hist') = Len(hist) + 1
                   /\ w2 = <<w[1] + m[1] * 10 * dt, w[2] + m[2] * 10 * dt,
                             w[3] + m[3] * 20 * dt>>
                   /\ a2 = <<a[1] + w2[1] * dt, a[2] + w2[2] * dt, a[3] + w2[3] * dt>>
          ELSE /\ xt'.data_cache.angular_velocity = xt.data_cache.angular_velocity
               /\ xt'.data_cache.attitude = xt.data_cache.attitude]_vars
    /\ [](hist = << <<(<<1, 0, 0>>), 100>> >>
            => /\ xt.data_cache.angular_velocity = <<1000, 0, 0>>
               /\ xt.data_cache.attitude = <<100000, 0, 0>>)
    /\ [](hist = << <<(<<1, 0, 0>>), 100>>, <<(<<1, 0, 0>>), 100>> >>
            => /\ xt.data_cache.angular_velocity = <<2000, 0, 0>>
               /\ xt.data_cache.attitude = <<300000, 0, 0>>)

C26_Witness ==
    /\ hist = << <<(<<1, 0, 0>>), 100>>, <<(<<1, 0, 0>>), 100>> >>
    /\ xt.data_cache.attitude = <<300000, 0, 0>>
    /\ ret.data.filled /\ ret.data.attitude = <<300000, 0, 0>>

\* C27: the pressure handed out is the average of the matched min and max, and
\* 101325 Pa when a min or max line is absent; each velocity component is the
\* average of its matched min and max, and 0 when one of the two is absent.
C27_AverageOrConstant ==
    ret.data.filled =>
        LET p == files.pressure
            u == files.velocity
        IN  /\ (p.exists /\ p.min.found /\ p.min.ok /\ p.max.found /\ p.max.ok)
                  => 2 * ret.data.pressure = p.min.v + p.max.v
            /\ (~p.min.found \/ ~p.max.found) => ret.data.pressure = 2 * 101325
            /\ \A i \in 1..3 :
                  /\ (u.exists /\ u.min[i].found /\ u.max[i].found)
                        => 2 * ret.data.velocity[i] = u.min[i].v + u.max[i].v
                  /\ (~u.min[i].found \/ ~u.max[i].found) => ret.data.velocity[i] = 0

\* C28: a stop request never raises: it never joins a thread object that a start
\* request has stored in control_thread and not started yet.
C28_StopNeverRaises ==
    [][\A c \in Callers : call[c].pc = "st_read" => call'[c].pc # "raised"]_vars

\* C29: once start_simulation has returned True, control_loop_running is false
\* whenever the control-loop thread of the orchestrator has exited.
C29_FlagsFollowThread ==
    (/\ orch.simulation_running
     /\ orch.control_thread # 0
     /\ othr[orch.control_thread].st = "dead")
    => ~orch.control_loop_running

\* C30: the enabled field gates nothing: a loop thread leaves the loop only when
\* running is false, and a step that changes enabled changes neither the running
\* flag nor the state or position of any loop thread.
C30_EnabledGatesNothing ==
    /\ [][\A t \in Threads : (Alive(t) /\ thr'[t].st = "dead") => ~running]_vars
    /\ [][config'.enabled # config.enabled
           => /\ running' = running
              /\ control_thread' = control_thread
              /\ \A t \in Threads : /\ thr'[t].st = thr[t].st
                                     /\ thr'[t].pc = thr[t].pc]_vars

C30_Witness ==
    /\ ~config.enabled /\ applied = 2
    /\ call[CfgCaller].pc = "u_write" /\ call[CfgCaller].k = 2
    /\ running
    /\ \E t \in Threads : Alive(t) /\ thr[t].pc = "actuate" /\ thr[t].cmd.ts \in recorded

\* C10: the values one cycle has read from the configuration all come from one
\* whole configuration (and one clamp reads one limit).
C10_NoMixedConfigObserved ==
    \A t \in Threads :
        Alive(t) => \E cfg \in WholeConfigs :
                        \A f \in DOMAIN NoObs : thr[t].obs[f] \subseteq {cfg[f]}

====
